---- MODULE Spec2Model ----
(***************************************************************************)
(* Model of the DIOT crate monitoring core: the card handle                *)
(* (diot/channel.py, diot/cards.py), the crate manager (diot/manager.py)   *)
(* and the monitoring session (diot/monitor.py).                           *)
(*                                                                         *)
(* Units.  Temperatures are integers in LM75 steps: TEMP_SCALE steps per   *)
(* degree Celsius.  A load power is kept as its PWM duty cycle; the cached *)
(* power the code reports is duty / 0xFFFF * max_power and is represented  *)
(* by its numerator duty * max_power (denominator PWM_FULL).  None is      *)
(* NoPower where a number is expected and <<>> where a pair is expected.   *)
(***************************************************************************)
EXTENDS Integers, Sequences, FiniteSets, TLC

(***************************************************************************)
(* Bounds of the model                                                     *)
(***************************************************************************)
NumRegular == 1       \* regular load channels per card (16 on the hardware)
NumSensors == 1       \* sensor-only connector channels per card (2 on the hardware)
MaxDuration == 45     \* longest monitor() duration tried, in clock units

(***************************************************************************)
(* Program constants                                                       *)
(***************************************************************************)
PWM_FULL == 65535             \* 0xFFFF
DEFAULT_MAX_POWER == 5        \* Channel.__init__ default max_power, W
AUX_MAX_POWER == 3            \* max_power of the auxiliary (3V3) channel, W
SOFT_OT_THRESHOLD == 5        \* degrees Celsius
DEFAULT_OT_SHUTDOWN == 80     \* DIOTCrateManager ot_shutdown default, Celsius
TEMP_SCALE == 2               \* LM75 steps per degree Celsius
TIME_SCALE == 10              \* clock units per second
SLEEP_TIME == 1               \* 0.1 s, in clock units
SECONDS_PER_BOARD == 1        \* seconds one card report takes (diot.manager)
SECONDS_PER_MINUTE == 60      \* the 60.0 of the rate computation
SS_THRESHOLD == 1             \* ss_threshlod default, K/min

NoPower == 0 - 1              \* SensorChannel.load_power returns None
None == <<"None">>            \* an argument that was not given
NoIdx == 0 - 1                \* _find_window_start_idx returns None
NoRate == <<>>                \* temp_rate_per_min is None

(***************************************************************************)
(* The crate: cards in the order of DIOTCrateManager.cards, and channels   *)
(* in the order of DIOTCard.report (load_channels + diot_conn_channels).   *)
(***************************************************************************)
SerialOrder == <<"DT00", "DT01">>
Serials == {SerialOrder[i] : i \in DOMAIN SerialOrder}

AuxIdx == NumRegular
RegularIdx == 0 .. (NumRegular - 1)
LoadIdx == 0 .. NumRegular
SensorIdx == (NumRegular + 1) .. (NumRegular + NumSensors)
Channels == 0 .. (NumRegular + NumSensors)

SeqToSet(s) == {s[i] : i \in DOMAIN s}

max_power(ch) == IF ch = AuxIdx THEN AUX_MAX_POWER ELSE DEFAULT_MAX_POWER

\* Values the inputs of the operations are drawn from.
PowerInputs == {0, 3, 7}
SetterInputs == {0, 3, 5, 7}         \* watts asked of the setters
CardPowerInputs == {3, 999}          \* totals asked of set_cards_load_power
CoolTemp == 74 * TEMP_SCALE
WarmTemp == 75 * TEMP_SCALE
HotTemp == 80 * TEMP_SCALE

\* One reading of a card: every channel cool except at most one, at T.
ReadingsAt(T) ==
    {[ch \in Channels |-> CoolTemp]} \cup
    {[ch \in Channels |-> IF ch = h THEN T ELSE CoolTemp] : h \in Channels}

CardReadings ==
    ReadingsAt(WarmTemp) \cup {[ch \in Channels |-> IF ch = 0 THEN HotTemp ELSE CoolTemp]}

SerialLists == {<<"DT01">>}
PowerLists == {<<"DT00">>, <<"DT00", "DT01">>}

VARIABLES
    duty,       \* [card -> [load channel -> PWM duty cycle]]
    lastop,     \* [card -> the last power operation applied to the card]
    rc          \* the report_cards call just made, NoCall after any other operation

VARIABLES
    pc,         \* where monitor() is: idle, loop, finally, returned, raised
    cfg,        \* the arguments of the monitor() call
    clock,      \* time.monotonic()
    loc,        \* the local variables of monitor()
    sess,       \* the fields of the MonitoringSession object
    file,       \* the CSV file at file_path
    fin         \* how the loop ended and what the finally block did

cardvars == <<duty, lastop, rc>>
monvars == <<pc, cfg, clock, loc, sess, file, fin>>
vars == <<duty, lastop, rc, pc, cfg, clock, loc, sess, file, fin>>

(***************************************************************************)
(* diot/channel.py                                                         *)
(***************************************************************************)
DutyForShareUnclamped(ch, power, n) ==
    (power * PWM_FULL) \div (n * max_power(ch))

\* Channel.load_power setter: the duty cycle written for a request of
\* power / n watts (int() truncates; powers are non-negative here).
DutyForShare(ch, power, n) ==
    IF power > n * max_power(ch) THEN PWM_FULL
    ELSE (power * PWM_FULL) \div (n * max_power(ch))

\* The setter called with a whole number of watts.
DutyFor(ch, power) == DutyForShare(ch, power, 1)

\* Channel.load_power getter (numerator over PWM_FULL) and
\* SensorChannel.load_power, which is always None.
load_power(d, ch) ==
    IF ch \in LoadIdx THEN d[ch] * max_power(ch) ELSE NoPower

\* SensorChannel.ot_shutdown: the cached threshold set by init_config.
ot_shutdown(ch) == DEFAULT_OT_SHUTDOWN * TEMP_SCALE

(***************************************************************************)
(* diot/cards.py                                                           *)
(***************************************************************************)
\* DIOTCard.init_config: the software threshold of the card.
soft_ot_shutdown == (DEFAULT_OT_SHUTDOWN - SOFT_OT_THRESHOLD) * TEMP_SCALE

\* don't use the 3.3V channel for load power
max_load_power == Cardinality(RegularIdx) * DEFAULT_MAX_POWER

\* DIOTCard.set_all_load_power(power / n): every load channel but the last one.
set_all_load_power_share(d, power, n) ==
    [ch \in LoadIdx |-> IF ch \in RegularIdx THEN DutyForShare(ch, power, n) ELSE d[ch]]

\* DIOTCard.set_all_load_power with a whole number of watts.
set_all_load_power(d, power) == set_all_load_power_share(d, power, 1)

\* DIOTCard.shutdown_all_loads
shutdown_all_loads(d) == set_all_load_power(d, 0)

OtEvStrict(temperature) == temperature > soft_ot_shutdown

\* The software over-temperature test of DIOTCard.report.
OtEv(temperature) == temperature >= soft_ot_shutdown

\* DIOTCard.report for a card with duty cycles d reading temperatures temps.
report(serial, d, temps, prior) ==
    [card_serial |-> serial,
     prior |-> prior,
     channels |-> [ch \in Channels |->
        [temperature |-> temps[ch],
         ot_shutdown |-> ot_shutdown(ch),
         load_power |-> load_power(d, ch),
         ot_ev |-> OtEv(temps[ch])]]]

\* any([ch["ot_ev"] for ch in report["channels"]])
CardOtEv(rep) == \E ch \in DOMAIN rep.channels : rep.channels[ch].ot_ev

(***************************************************************************)
(* diot/manager.py                                                         *)
(***************************************************************************)
\* The cards report_cards reads: all of them when serials is None.
SerialsOf(serials) == IF serials = None THEN SerialOrder ELSE serials

\* combined_results: the reports of cards 1..n of the list, in order.
CombinedResults(list, n, temps) ==
    [i \in 1 .. n |-> report(list[i], duty[list[i]], temps[list[i]], lastop[list[i]])]

OtShutdownsEveryCard(flag, reps) ==
    IF flag /\ (\E i \in DOMAIN reps : CardOtEv(reps[i]))
    THEN [i \in DOMAIN reps |-> reps[i].card_serial]
    ELSE <<>>

\* The loop over combined_results: the cards shut down, in order.
RECURSIVE OtShutdowns(_, _)
OtShutdowns(flag, reps) ==
    IF reps = <<>> THEN <<>>
    ELSE (IF flag /\ CardOtEv(Head(reps)) THEN <<Head(reps).card_serial>> ELSE <<>>)
         \o OtShutdowns(flag, Tail(reps))

\* The load state after the shutdowns of report_cards.
DutyAfterShutdowns(shut) ==
    [c \in Serials |-> IF c \in SeqToSet(shut) THEN shutdown_all_loads(duty[c]) ELSE duty[c]]

LastopAfterShutdowns(shut) ==
    [c \in Serials |-> IF c \in SeqToSet(shut) THEN "shutdown" ELSE lastop[c]]

\* _set_single_card_load_power: the duty cycles of the card afterwards.
set_single_card_load_power(d, power) ==
    LET p == IF power > max_load_power THEN max_load_power ELSE power
    IN  set_all_load_power_share(d, p, Cardinality(LoadIdx))

NoCall ==
    [status |-> "none", flag |-> FALSE, serials |-> None, read |-> <<>>, shut |-> <<>>,
     channel |-> NoIdx, power |-> 0, before |-> 0, ret |-> FALSE, idx |-> NoIdx]

(***************************************************************************)
(* diot/monitor.py: the pure parts                                         *)
(***************************************************************************)
Abs(x) == IF x < 0 THEN 0 - x ELSE x
Min(S) == CHOOSE x \in S : \A y \in S : x <= y

\* set_history_buffer: int(ss_window_duration_s * (SECONDS_PER_BOARD / n_cards)) + 1
\* with the window given in clock units.
history_depth(window, n_cards) ==
    (window * SECONDS_PER_BOARD) \div (TIME_SCALE * n_cards) + 1

DequeAppendUnbounded(q, x, depth) == Append(q, x)

\* deque(maxlen=depth).append(x)
DequeAppend(q, x, depth) ==
    LET a == Append(q, x) IN IF Len(a) > depth THEN Tail(a) ELSE a

find_window_start_idx_strict(ch_history, window) ==
    IF ch_history = <<>> THEN NoIdx
    ELSE LET oldest_time == ch_history[1][1]
             newest_time == ch_history[Len(ch_history)][1]
             enough_data == /\ Len(ch_history) >= 2
                            /\ newest_time - oldest_time >= window
             window_start_time == newest_time - window
             hits == {i \in DOMAIN ch_history : ch_history[i][1] > window_start_time}
         IN  IF ~enough_data THEN NoIdx
             ELSE IF hits = {} THEN 0 ELSE Min(hits) - 1

\* _find_window_start_idx, given the history of channel 0 of the card
\* (empty when the card is not in the history); the index is 0-based.
find_window_start_idx(ch_history, window) ==
    IF ch_history = <<>> THEN NoIdx
    ELSE LET oldest_time == ch_history[1][1]
             newest_time == ch_history[Len(ch_history)][1]
             enough_data == /\ Len(ch_history) >= 2
                            /\ newest_time - oldest_time >= window
             window_start_time == newest_time - window
             hits == {i \in DOMAIN ch_history : ch_history[i][1] >= window_start_time}
         IN  IF ~enough_data THEN NoIdx
             ELSE IF hits = {} THEN 0 ELSE Min(hits) - 1

\* _check_ch_steady_state on the history after the append.  The rate in
\* K/min is the fraction rate[1] / rate[2].
check_ch_steady_state(ch_history, window_start_idx, ss_threshold) ==
    IF window_start_idx = NoIdx THEN [rate |-> NoRate, steady |-> FALSE]
    ELSE LET first == ch_history[window_start_idx + 1]
             last == ch_history[Len(ch_history)]
             time_diff == last[1] - first[1]
             rate == <<(last[2] - first[2]) * SECONDS_PER_MINUTE * TIME_SCALE,
                       time_diff * TEMP_SCALE>>
         IN  IF time_diff <= 0 THEN [rate |-> NoRate, steady |-> FALSE]
             ELSE [rate |-> rate, steady |-> Abs(rate[1]) <= ss_threshold * rate[2]]

\* The steady registry is a dict: a sequence of entries in insertion order.
RegIdx(reg, card_id) ==
    LET hits == {i \in DOMAIN reg : reg[i].card_id = card_id}
    IN  IF hits = {} THEN 0 ELSE Min(hits)

modify_ss_registry_refresh(reg, card_id, is_steady, elapsed_time) ==
    LET i == RegIdx(reg, card_id)
        entry(b) == [card_id |-> card_id, steady |-> b, since |-> elapsed_time]
    IN  IF is_steady /\ i = 0
          THEN [registry |-> Append(reg, entry(TRUE)), added |-> TRUE]
        ELSE IF i # 0 /\ is_steady
          THEN [registry |-> [reg EXCEPT ![i] = entry(TRUE)], added |-> FALSE]
        ELSE IF i # 0 /\ ~is_steady /\ reg[i].steady
          THEN [registry |-> [reg EXCEPT ![i] = entry(FALSE)], added |-> FALSE]
        ELSE [registry |-> reg, added |-> FALSE]

\* modify_ss_registry
modify_ss_registry(reg, card_id, is_steady, elapsed_time) ==
    LET i == RegIdx(reg, card_id)
        entry(b) == [card_id |-> card_id, steady |-> b, since |-> elapsed_time]
    IN  IF is_steady /\ i = 0
          THEN [registry |-> Append(reg, entry(TRUE)), added |-> TRUE]
        ELSE IF i # 0 /\ is_steady /\ ~reg[i].steady
          THEN [registry |-> [reg EXCEPT ![i] = entry(TRUE)], added |-> FALSE]
        ELSE IF i # 0 /\ ~is_steady /\ reg[i].steady
          THEN [registry |-> [reg EXCEPT ![i] = entry(FALSE)], added |-> FALSE]
        ELSE [registry |-> reg, added |-> FALSE]

IsCardSteadyAny(ss_per_ch) == \E ch \in DOMAIN ss_per_ch : ss_per_ch[ch]

\* is_steady = all(ss_per_ch.values())
IsCardSteady(ss_per_ch) == \A ch \in DOMAIN ss_per_ch : ss_per_ch[ch]

\* process_card_report: st carries temp_history and steady_registry.  The
\* channels of the report are numbered from 0 (enumerate).
process_card_report(rep, elapsed_time, st, depth, window, ss_threshold) ==
    LET card_id == rep.card_serial
        reported == DOMAIN rep.channels
        window_start_idx == find_window_start_idx(st.temp_history[card_id][0], window)
        hist == [ch \in Channels |->
                    IF ch \in reported
                    THEN DequeAppend(st.temp_history[card_id][ch],
                                     <<elapsed_time, rep.channels[ch].temperature>>, depth)
                    ELSE st.temp_history[card_id][ch]]
        res == [ch \in reported |->
                    check_ch_steady_state(hist[ch], window_start_idx, ss_threshold)]
        rows == [i \in 1 .. Cardinality(reported) |->
                    [elapsed_time |-> elapsed_time,
                     card_serial |-> card_id,
                     channel |-> i - 1,
                     temperature |-> rep.channels[i - 1].temperature,
                     load_power |-> rep.channels[i - 1].load_power,
                     ot_shutdown_t |-> rep.channels[i - 1].ot_shutdown,
                     ot_ev |-> rep.channels[i - 1].ot_ev,
                     steady_state |-> res[i - 1].steady,
                     temp_rate_per_min |-> res[i - 1].rate]]
        is_steady == IsCardSteady([ch \in reported |-> res[ch].steady])
        m == modify_ss_registry(st.steady_registry, card_id, is_steady, elapsed_time)
    IN  [card_ot_ev |-> CardOtEv(rep),
         window_start_idx |-> window_start_idx,
         measurements |-> rows,
         is_steady |-> is_steady,
         temp_history |-> [st.temp_history EXCEPT ![card_id] = hist],
         steady_registry |-> m.registry]

\* The body of `for report in reports` for the first n reports.
RECURSIVE ProcessReports(_, _, _, _, _, _, _)
ProcessReports(reps, n, elapsed_time, st, depth, window, ss_threshold) ==
    IF n = 0 THEN st
    ELSE LET before == ProcessReports(reps, n - 1, elapsed_time, st, depth, window, ss_threshold)
             r == process_card_report(reps[n], elapsed_time, before, depth, window, ss_threshold)
         IN  [temp_history |-> r.temp_history,
              steady_registry |-> r.steady_registry,
              ot_ev_detected |-> before.ot_ev_detected \/ r.card_ot_ev,
              state_info |-> [c \in DOMAIN before.state_info \cup {reps[n].card_serial} |->
                                 IF c = reps[n].card_serial THEN r.is_steady
                                 ELSE before.state_info[c]],
              crate_measurements |-> before.crate_measurements \o r.measurements]

AnySteady(state_info) == \E c \in DOMAIN state_info : state_info[c]

\* all(_state_info.values())
AllSteady(state_info) == \A c \in DOMAIN state_info : state_info[c]

initialize_csv_no_header(f) == [exists |-> TRUE, headers |-> 0, rows |-> <<>>]

\* _initialize_csv: open(file_path, "w") and writeheader()
initialize_csv(f) == [exists |-> TRUE, headers |-> 1, rows |-> <<>>]

write_measurements_head(f, initialized, rows) ==
    IF rows = <<>> THEN [file |-> f, initialized |-> initialized]
    ELSE LET g == IF initialized THEN f ELSE initialize_csv(f)
         IN  [file |-> [g EXCEPT !.exists = TRUE, !.rows = @ \o <<Head(rows)>>],
              initialized |-> TRUE]

\* _write_measurements: the file and _file_initialized after writing rows.
write_measurements(f, initialized, rows) ==
    IF rows = <<>> THEN [file |-> f, initialized |-> initialized]
    ELSE LET g == IF initialized THEN f ELSE initialize_csv(f)
         IN  [file |-> [g EXCEPT !.exists = TRUE, !.rows = @ \o rows],
              initialized |-> TRUE]

EmptyHistory == [c \in Serials |-> [ch \in Channels |-> <<>>]]
EmptyInfo == [c \in {} |-> FALSE]

NoArgs ==
    [duration |-> 0, interval |-> 0, shutdown_card_on_ot |-> FALSE,
     stop_on_ot |-> FALSE, stop_on_steady_state |-> FALSE,
     shutdown_at_end |-> FALSE, save_every_iteration |-> FALSE,
     serials_to_monitor |-> None, start_time |-> 0]

NoLocals ==
    [t0 |-> 0, t |-> 0, prev_t |-> 0, offset_t |-> 0, elapsed_time |-> 0,
     ot_ev_detected |-> FALSE, state_info |-> EmptyInfo,
     crate_measurements |-> <<>>, cycles |-> 0]

NoFin == [reason |-> "none", log |-> <<>>, ret |-> 0]

\* MonitoringSession.__init__ for a window of `window` clock units.
NewSession(window, ss_threshold) ==
    [file_initialized |-> FALSE,
     ss_threshold |-> ss_threshold,
     ss_window_duration_s |-> window,
     steady_registry |-> <<>>,
     measurements |-> <<>>,
     history_depth |-> 0,
     temp_history |-> EmptyHistory]

NoFile == [exists |-> FALSE, headers |-> 0, rows |-> <<>>]

\* set_history_buffer(n_cards) on the session fields s: the first call
\* makes the buffers with the depth it computes, a later call clears them.
set_history_buffer(s, n_cards) ==
    [s EXCEPT !.history_depth =
                 IF @ = 0 THEN history_depth(s.ss_window_duration_s, n_cards) ELSE @,
              !.temp_history = EmptyHistory]

----
(***************************************************************************)
(* Operations on the cards and the crate                                   *)
(***************************************************************************)
\* channel.load_power = power (a sensor channel ignores the request)
ChannelSetLoadPower(c, ch, power) ==
    /\ duty' = [duty EXCEPT ![c] =
                  IF ch \in LoadIdx THEN [@ EXCEPT ![ch] = DutyFor(ch, power)] ELSE @]
    /\ lastop' = [lastop EXCEPT ![c] = "set"]
    /\ rc' = [NoCall EXCEPT !.status = "set", !.serials = <<c>>, !.channel = ch,
                            !.power = power, !.before = load_power(duty[c], ch)]
    /\ UNCHANGED monvars

\* card.set_all_load_power(power)
CardSetAllLoadPower(c, power) ==
    /\ duty' = [duty EXCEPT ![c] = set_all_load_power(@, power)]
    /\ lastop' = [lastop EXCEPT ![c] = "set"]
    /\ rc' = NoCall
    /\ UNCHANGED monvars

\* card.shutdown_all_loads()
CardShutdownAllLoads(c) ==
    /\ duty' = [duty EXCEPT ![c] = shutdown_all_loads(@)]
    /\ lastop' = [lastop EXCEPT ![c] = "shutdown"]
    /\ rc' = NoCall
    /\ UNCHANGED monvars

\* crate_manager.shutdown_all_loads()
CrateShutdownAllLoads ==
    /\ duty' = [c \in Serials |-> shutdown_all_loads(duty[c])]
    /\ lastop' = [c \in Serials |-> "shutdown"]
    /\ rc' = NoCall
    /\ UNCHANGED monvars

\* crate_manager.set_cards_load_power(serials, power) with registered cards
\* and one power for all of them
CrateSetCardsLoadPower(serials, power) ==
    /\ duty' = [c \in Serials |->
                  IF c \in SeqToSet(serials)
                  THEN set_single_card_load_power(duty[c], power) ELSE duty[c]]
    /\ lastop' = [c \in Serials |-> IF c \in SeqToSet(serials) THEN "set" ELSE lastop[c]]
    /\ rc' = [NoCall EXCEPT !.status = "set_cards", !.serials = serials, !.power = power]
    /\ UNCHANGED monvars

\* Lists with a serial that is no card of the crate, and lists of powers.
UnknownLists == {<<"DT00">>, <<"DT00", "DT99">>, <<"DT99", "DT00">>}
PowerValueLists == {<<3>>, <<3, 3>>}

\* crate_manager.set_cards_load_power(serials, powers) raising: ValueError
\* when the lists differ in length, before any card is set; KeyError at
\* the first serial that is not a card, after the cards before it are set.
CrateSetCardsLoadPowerRaises(serials, powers) ==
    LET mismatch == Len(serials) # Len(powers)
        unknown == {i \in DOMAIN serials : serials[i] \notin Serials}
        done == IF mismatch THEN {} ELSE {i \in DOMAIN serials : i < Min(unknown)}
    IN  /\ mismatch \/ unknown # {}
        /\ duty' = [c \in Serials |->
                      IF \E i \in done : serials[i] = c
                      THEN set_single_card_load_power(
                               duty[c], powers[CHOOSE i \in done : serials[i] = c])
                      ELSE duty[c]]
        /\ lastop' = [c \in Serials |->
                        IF \E i \in done : serials[i] = c THEN "set" ELSE lastop[c]]
        /\ rc' = [NoCall EXCEPT !.status = "set_cards_raised", !.serials = serials,
                                !.flag = mismatch, !.before = duty]
        /\ UNCHANGED monvars

\* crate_manager.report_cards(flag, serials=serials) returning normally
ReportCardsReturns(flag, serials, temps) ==
    LET list == SerialsOf(serials)
        reps == CombinedResults(list, Len(list), temps)
        shut == OtShutdowns(flag, reps)
    IN  /\ duty' = DutyAfterShutdowns(shut)
        /\ lastop' = LastopAfterShutdowns(shut)
        /\ rc' = [NoCall EXCEPT !.status = "returned", !.flag = flag, !.serials = serials,
                     !.read = reps, !.shut = shut]
        /\ UNCHANGED monvars

\* crate_manager.report_cards(flag, serials=serials) where the report of the
\* k-th card of the list raises: the list comprehension is abandoned.
ReportCardsRaises(flag, serials, temps, k) ==
    LET list == SerialsOf(serials)
        reps == CombinedResults(list, k - 1, temps)
    IN  /\ k \in 1 .. Len(list)
        /\ rc' = [NoCall EXCEPT !.status = "raised", !.flag = flag, !.serials = serials,
                     !.read = reps, !.shut = <<>>]
        /\ UNCHANGED <<duty, lastop>>
        /\ UNCHANGED monvars

----
(***************************************************************************)
(* MonitoringSession.monitor                                               *)
(***************************************************************************)
WindowUnits == 2 * TIME_SCALE       \* the session's window: 2 s
Intervals == {2 * TIME_SCALE}       \* sampling intervals tried: 2 s
Durations == {0, MaxDuration}
MonitorLists == {None, <<"DT01">>}

\* Temperatures a card may show in a sampling cycle.
MonitorReadings ==
    {[ch \in Channels |-> CoolTemp],
     [ch \in Channels |-> IF ch = 0 THEN WarmTemp ELSE CoolTemp]}

\* The time the reports of n cards take: about SECONDS_PER_BOARD each.
IoTimes(n) ==
    {d \in {n * SECONDS_PER_BOARD * TIME_SCALE - 1, n * SECONDS_PER_BOARD * TIME_SCALE + 1} :
        d > 0}

InitSession ==
    /\ pc = "idle"
    /\ cfg = NoArgs
    /\ clock = 0
    /\ loc = NoLocals
    /\ sess = NewSession(WindowUnits, SS_THRESHOLD)
    /\ file = NoFile
    /\ fin = NoFin

\* len(serials_to_monitor) if serials_to_monitor else len(self.crate_manager.cards)
NCards(serials) ==
    IF serials # None /\ serials # <<>> THEN Len(serials) ELSE Len(SerialOrder)

\* monitor(...) up to the try statement; the clock may advance by
\* `late` before the loop condition reads it.
MonitorStart(args, late) ==
    /\ pc = "idle"
    /\ cfg' = args
    /\ sess' = [set_history_buffer(sess, NCards(args.serials_to_monitor)) EXCEPT
                 !.steady_registry = <<>>]
    /\ loc' = [NoLocals EXCEPT !.t0 = clock, !.t = clock, !.prev_t = clock,
                               !.offset_t = args.start_time]
    /\ clock' = clock + late
    /\ fin' = NoFin
    /\ pc' = "loop"
    /\ UNCHANGED <<duty, lastop, rc, file>>

\* The loop condition is false: the duration has been reached.
LoopExit ==
    /\ pc = "loop"
    /\ ~(clock - loc.t0 < cfg.duration)
    /\ pc' = "finally"
    /\ fin' = [fin EXCEPT !.reason = "duration"]
    /\ UNCHANGED <<duty, lastop, rc, cfg, clock, loc, sess, file>>

\* The loop is entered and a sampling cycle is due at t = clock.
CycleDue ==
    /\ pc = "loop"
    /\ clock - loc.t0 < cfg.duration
    /\ \/ clock - loc.prev_t >= cfg.interval
       \/ loc.prev_t = loc.t0

SleepWaitNone ==
    LET since_prev_t == clock - loc.prev_t
    IN  IF cfg.interval - since_prev_t < SLEEP_TIME
        THEN cfg.interval - since_prev_t ELSE SLEEP_TIME - SLEEP_TIME

\* min(interval - since_prev_t, SLEEP_TIME)
SleepWait ==
    LET since_prev_t == clock - loc.prev_t
    IN  IF cfg.interval - since_prev_t < SLEEP_TIME
        THEN cfg.interval - since_prev_t ELSE SLEEP_TIME

\* The else branch: time.sleep(min(interval - since_prev_t, SLEEP_TIME))
Sleep ==
    /\ pc = "loop"
    /\ clock - loc.t0 < cfg.duration
    /\ ~CycleDue
    /\ clock' = clock + SleepWait
    /\ loc' = [loc EXCEPT !.t = clock, !.elapsed_time = clock - loc.t0 + loc.offset_t]
    /\ UNCHANGED <<duty, lastop, rc, pc, cfg, sess, file, fin>>

\* What a cycle starting now works with.
CycleList == SerialsOf(cfg.serials_to_monitor)
CycleElapsed == clock - loc.t0 + loc.offset_t
CycleStart ==
    [temp_history |-> sess.temp_history,
     steady_registry |-> sess.steady_registry,
     ot_ev_detected |-> loc.ot_ev_detected,
     state_info |-> loc.state_info,
     crate_measurements |-> <<>>]

StopReasonOtAlways(ot_ev_detected, all_steady) ==
    IF ot_ev_detected THEN "ot"
    ELSE IF all_steady /\ cfg.stop_on_steady_state THEN "steady"
    ELSE "none"

\* The stop tests at the end of a completed cycle.
StopReason(ot_ev_detected, all_steady) ==
    IF ot_ev_detected /\ cfg.stop_on_ot THEN "ot"
    ELSE IF all_steady /\ cfg.stop_on_steady_state THEN "steady"
    ELSE "none"

\* A sampling cycle that runs to its end: reports, processing, write,
\* stop tests.  It takes d clock units.
CycleCompletes(temps, d) ==
    /\ CycleDue
    /\ LET reps == CombinedResults(CycleList, Len(CycleList), temps)
           shut == OtShutdowns(cfg.shutdown_card_on_ot, reps)
           st == ProcessReports(reps, Len(reps), CycleElapsed, CycleStart,
                                sess.history_depth, sess.ss_window_duration_s,
                                sess.ss_threshold)
           w == IF cfg.save_every_iteration
                THEN write_measurements(file, sess.file_initialized, st.crate_measurements)
                ELSE [file |-> file, initialized |-> sess.file_initialized]
           stop == StopReason(st.ot_ev_detected, AllSteady(st.state_info))
       IN  /\ duty' = DutyAfterShutdowns(shut)
           /\ lastop' = LastopAfterShutdowns(shut)
           /\ rc' = [NoCall EXCEPT !.status = "returned", !.flag = cfg.shutdown_card_on_ot, !.serials = cfg.serials_to_monitor,
                     !.read = reps, !.shut = shut]
           /\ sess' = [sess EXCEPT !.temp_history = st.temp_history,
                                   !.steady_registry = st.steady_registry,
                                   !.measurements = @ \o st.crate_measurements,
                                   !.file_initialized = w.initialized]
           /\ file' = w.file
           /\ loc' = [loc EXCEPT !.t = clock, !.elapsed_time = CycleElapsed,
                                 !.ot_ev_detected = st.ot_ev_detected,
                                 !.state_info = st.state_info,
                                 !.crate_measurements = st.crate_measurements,
                                 !.cycles = @ + 1,
                                 !.prev_t = IF stop = "none" THEN clock ELSE @]
           /\ pc' = IF stop = "none" THEN "loop" ELSE "finally"
           /\ fin' = [fin EXCEPT !.reason = stop]
    /\ clock' = clock + d
    /\ UNCHANGED cfg

\* A sampling cycle in which the report of the k-th card raises.
CycleReportRaises(temps, k, d) ==
    /\ CycleDue
    /\ k \in 1 .. Len(CycleList)
    /\ rc' = [NoCall EXCEPT !.status = "raised", !.flag = cfg.shutdown_card_on_ot, !.serials = cfg.serials_to_monitor,
                     !.read = CombinedResults(CycleList, k - 1, temps), !.shut = <<>>]
    /\ loc' = [loc EXCEPT !.t = clock, !.elapsed_time = CycleElapsed,
                          !.crate_measurements = <<>>]
    /\ clock' = clock + d
    /\ pc' = "finally"
    /\ fin' = [fin EXCEPT !.reason = "report_error"]
    /\ UNCHANGED <<duty, lastop, cfg, sess, file>>

\* A sampling cycle interrupted (KeyboardInterrupt) after j of the
\* reports have been processed.
CycleInterrupted(temps, j, d) ==
    /\ CycleDue
    /\ j \in 0 .. (Len(CycleList) - 1)
    /\ LET reps == CombinedResults(CycleList, Len(CycleList), temps)
           shut == OtShutdowns(cfg.shutdown_card_on_ot, reps)
           st == ProcessReports(reps, j, CycleElapsed, CycleStart,
                                sess.history_depth, sess.ss_window_duration_s,
                                sess.ss_threshold)
       IN  /\ duty' = DutyAfterShutdowns(shut)
           /\ lastop' = LastopAfterShutdowns(shut)
           /\ rc' = [NoCall EXCEPT !.status = "returned", !.flag = cfg.shutdown_card_on_ot, !.serials = cfg.serials_to_monitor,
                     !.read = reps, !.shut = shut]
           /\ sess' = [sess EXCEPT !.temp_history = st.temp_history,
                                   !.steady_registry = st.steady_registry]
           /\ loc' = [loc EXCEPT !.t = clock, !.elapsed_time = CycleElapsed,
                                 !.ot_ev_detected = st.ot_ev_detected,
                                 !.state_info = st.state_info,
                                 !.crate_measurements = st.crate_measurements]
    /\ clock' = clock + d
    /\ pc' = "finally"
    /\ fin' = [fin EXCEPT !.reason = "interrupt"]
    /\ UNCHANGED <<cfg, file>>

\* A sampling cycle whose _write_measurements raises (the file cannot be
\* opened): the rows are in self.measurements and not in the file.
CycleWriteRaises(temps, d) ==
    /\ CycleDue
    /\ cfg.save_every_iteration
    /\ LET reps == CombinedResults(CycleList, Len(CycleList), temps)
           shut == OtShutdowns(cfg.shutdown_card_on_ot, reps)
           st == ProcessReports(reps, Len(reps), CycleElapsed, CycleStart,
                                sess.history_depth, sess.ss_window_duration_s,
                                sess.ss_threshold)
       IN  /\ st.crate_measurements # <<>>
           /\ duty' = DutyAfterShutdowns(shut)
           /\ lastop' = LastopAfterShutdowns(shut)
           /\ rc' = [NoCall EXCEPT !.status = "returned", !.flag = cfg.shutdown_card_on_ot, !.serials = cfg.serials_to_monitor,
                     !.read = reps, !.shut = shut]
           /\ sess' = [sess EXCEPT !.temp_history = st.temp_history,
                                   !.steady_registry = st.steady_registry,
                                   !.measurements = @ \o st.crate_measurements]
           /\ loc' = [loc EXCEPT !.t = clock, !.elapsed_time = CycleElapsed,
                                 !.ot_ev_detected = st.ot_ev_detected,
                                 !.state_info = st.state_info,
                                 !.crate_measurements = st.crate_measurements,
                                 !.cycles = @ + 1]
    /\ clock' = clock + d
    /\ pc' = "finally"
    /\ fin' = [fin EXCEPT !.reason = "write_error"]
    /\ UNCHANGED <<cfg, file>>

\* KeyboardInterrupt between two cycles (in the loop test or the sleep).
Interrupt ==
    /\ pc = "loop"
    /\ pc' = "finally"
    /\ fin' = [fin EXCEPT !.reason = "interrupt"]
    /\ UNCHANGED <<duty, lastop, rc, cfg, clock, loc, sess, file>>

\* The loop was left by an exception, which the finally block re-raises.
ExceptionPending == fin.reason \in {"report_error", "interrupt", "write_error"}

\* The rebinding of elapsed_time by the loop over the steady registry.
ElapsedAfterSummary ==
    IF sess.steady_registry = <<>> THEN loc.elapsed_time
    ELSE sess.steady_registry[Len(sess.steady_registry)].since

\* avg_time_needed, in clock units
AvgTimeNeeded ==
    IF cfg.serials_to_monitor # None /\ cfg.serials_to_monitor # <<>>
    THEN SECONDS_PER_BOARD * Len(cfg.serials_to_monitor) * TIME_SCALE
    ELSE Len(SerialOrder) * TIME_SCALE

\* The finally block running to its end, then the return or the re-raise.
FinalizeCompletes ==
    /\ pc = "finally"
    /\ LET w == IF ~cfg.save_every_iteration
                THEN write_measurements(file, sess.file_initialized, sess.measurements)
                ELSE [file |-> file, initialized |-> sess.file_initialized]
       IN  /\ file' = w.file
           /\ sess' = [sess EXCEPT !.file_initialized = w.initialized]
    /\ duty' = IF cfg.shutdown_at_end
               THEN [c \in Serials |-> shutdown_all_loads(duty[c])] ELSE duty
    /\ lastop' = IF cfg.shutdown_at_end
                 THEN [c \in Serials |-> "shutdown"] ELSE lastop
    /\ loc' = [loc EXCEPT !.elapsed_time = ElapsedAfterSummary]
    /\ fin' = [fin EXCEPT
                 !.log = (IF ~cfg.save_every_iteration THEN <<"write">> ELSE <<>>)
                         \o (IF cfg.shutdown_at_end THEN <<"shutdown">> ELSE <<>>)
                         \o <<"summary">>,
                 !.ret = IF ExceptionPending THEN 0
                         ELSE ElapsedAfterSummary + AvgTimeNeeded]
    /\ pc' = IF ExceptionPending THEN "raised" ELSE "returned"
    /\ UNCHANGED <<rc, cfg, clock>>

\* The finally block when its _write_measurements raises: the rest of the
\* block is skipped.
FinalizeWriteRaises ==
    /\ pc = "finally"
    /\ ~cfg.save_every_iteration
    /\ sess.measurements # <<>>
    /\ pc' = "raised"
    /\ UNCHANGED <<duty, lastop, rc, cfg, clock, loc, sess, file, fin>>

MonitorArgs ==
    [duration : Durations, interval : Intervals, shutdown_card_on_ot : BOOLEAN,
     stop_on_ot : BOOLEAN, stop_on_steady_state : BOOLEAN,
     shutdown_at_end : BOOLEAN, save_every_iteration : BOOLEAN,
     serials_to_monitor : MonitorLists, start_time : {0}]

CycleTemps == [SeqToSet(CycleList) -> MonitorReadings]

\* A crate with every load on, as left by the channel setters.
InitMon ==
    /\ duty = [c \in Serials |-> [ch \in LoadIdx |-> PWM_FULL]]
    /\ lastop = [c \in Serials |-> "set"]
    /\ rc = NoCall
    /\ InitSession

NextMon ==
    \/ \E args \in MonitorArgs, late \in {0, 1} : MonitorStart(args, late)
    \/ LoopExit
    \/ Sleep
    \/ \E temps \in CycleTemps, d \in IoTimes(Len(CycleList)) : CycleCompletes(temps, d)
    \/ \E temps \in CycleTemps, d \in IoTimes(Len(CycleList)), k \in DOMAIN CycleList :
          CycleReportRaises(temps, k, d)
    \/ \E temps \in CycleTemps, d \in IoTimes(Len(CycleList)), j \in 0 .. (Len(CycleList) - 1) :
          CycleInterrupted(temps, j, d)
    \/ \E temps \in CycleTemps, d \in IoTimes(Len(CycleList)) : CycleWriteRaises(temps, d)
    \/ Interrupt
    \/ FinalizeCompletes
    \/ FinalizeWriteRaises

SpecMon == InitMon /\ [][NextMon]_vars

Terminated == pc \in {"returned", "raised"}
Monitored == SeqToSet(SerialsOf(cfg.serials_to_monitor))

\* The rows of one card in a list of rows, and the card's verdict there.
RowsOf(rows, c) == {i \in DOMAIN rows : rows[i].card_serial = c}
CardSteadyIn(rows, c) == \A i \in RowsOf(rows, c) : rows[i].steady_state
HasOtRow(rows) == \E i \in DOMAIN rows : rows[i].ot_ev

\* rows is the tail of the file
AtEndOfFile(rows) ==
    /\ Len(file.rows) >= Len(rows)
    /\ SubSeq(file.rows, Len(file.rows) - Len(rows) + 1, Len(file.rows)) = rows

\* C3: with shutdown_at_end set, once monitor() has returned or raised
\* every load channel of every registered card is at power 0.
C3_LoadsOffAfterMonitor ==
    (Terminated /\ cfg.shutdown_at_end) =>
        \A c \in Serials : \A ch \in LoadIdx : load_power(duty[c], ch) = 0

C6_FileWithHeaderAfterMonitor ==
    Terminated => (file.exists /\ file.headers = 1)

RowsPerCycle == Len(CycleList) * Cardinality(Channels)
CycleOfRow(i) == (i - 1) \div RowsPerCycle
LastStamp == loc.t - loc.t0 + loc.offset_t

\* rows is made of whole cycles: each has one stamp and a row for every
\* (card, channel) of the monitored cards, in their order.
WholeCycles(rows) ==
    /\ Len(rows) % RowsPerCycle = 0
    /\ \A i \in DOMAIN rows :
          LET k == (i - 1) % RowsPerCycle
          IN  /\ rows[i].elapsed_time = rows[CycleOfRow(i) * RowsPerCycle + 1].elapsed_time
              /\ rows[i].card_serial = CycleList[k \div Cardinality(Channels) + 1]
              /\ rows[i].channel = k % Cardinality(Channels)

\* The last cycle was left before all its reports were read and processed.
CycleFailedPartWay ==
    \/ fin.reason = "report_error"
    \/ fin.reason = "interrupt" /\ Len(loc.crate_measurements) < RowsPerCycle

CsvBool(b) == IF b THEN "True" ELSE "False"
ParseBool(text) == text = "True"
CsvRow(row) == [row EXCEPT !.ot_ev = CsvBool(@), !.steady_state = CsvBool(@)]
ReadBack(f) ==
    [i \in DOMAIN f.rows |->
        [CsvRow(f.rows[i]) EXCEPT !.ot_ev = ParseBool(@), !.steady_state = ParseBool(@)]]

IsPrefix(a, b) == Len(a) <= Len(b) /\ SubSeq(b, 1, Len(a)) = a

----
(***************************************************************************)
(* A longer run of monitor() as monitor_cards calls it: one card named in  *)
(* serials_to_monitor, rows saved every iteration, no failure.             *)
(***************************************************************************)
RunDuration == 65                        \* duration of the run, in clock units
RunArgs ==
    [duration : {0, RunDuration}, interval : Intervals, shutdown_card_on_ot : {TRUE},
     stop_on_ot : BOOLEAN, stop_on_steady_state : BOOLEAN,
     shutdown_at_end : BOOLEAN, save_every_iteration : {TRUE},
     serials_to_monitor : SerialLists \cup {<<>>}, start_time : {0}]

InitRun == InitMon

NextRun ==
    \/ \E args \in RunArgs, late \in {0, 1} : MonitorStart(args, late)
    \/ LoopExit
    \/ Sleep
    \/ \E temps \in CycleTemps, d \in IoTimes(Len(CycleList)) : CycleCompletes(temps, d)
    \/ FinalizeCompletes

SpecRun == InitRun /\ [][NextRun]_vars

CycleRuns ==
    /\ CycleDue
    /\ clock' \in {clock + d : d \in IoTimes(Len(CycleList))}

\* The running call takes its next step: the loop test, the sleep, the
\* card calls and the finally block all return, and the clock advances.
SpecRunLive ==
    /\ InitRun /\ [][NextRun]_vars
    /\ WF_vars(LoopExit)
    /\ WF_vars(Sleep)
    /\ WF_clock(CycleRuns)
    /\ WF_vars(FinalizeCompletes)

----
(***************************************************************************)
(* The steady-state scenario: one card, window 60 s, threshold 1.0 K/min,  *)
(* process_card_report called every 5 s with a temperature that rises      *)
(* 0.5 K per sample over the first 15 samples and is flat afterwards.      *)
(***************************************************************************)
ScenarioTicks == 40                      \* samples taken
ScenarioWindow == 60 * TIME_SCALE        \* 60 s
ScenarioPeriod == 5 * TIME_SCALE         \* 5 s
ScenarioBase == 20 * TEMP_SCALE
ScenarioOffsets == {0, 7, 1000}          \* start_time of the session
ScenarioCard == "DT00"

\* The temperature of sample k: one LM75 step (0.5 K) up per sample over
\* samples 0 .. 14, flat from sample 14 on.
ScenarioTemp(k) ==
    ScenarioBase + (IF k < 15 THEN k ELSE 14)

InitScenario ==
    /\ duty = [c \in Serials |-> [ch \in LoadIdx |-> 0]]
    /\ lastop = [c \in Serials |-> "none"]
    /\ rc = NoCall
    /\ pc = "idle"
    /\ cfg \in {[NoArgs EXCEPT !.start_time = o, !.serials_to_monitor = <<ScenarioCard>>] :
                   o \in ScenarioOffsets}
    /\ clock = 0
    /\ loc = NoLocals
    /\ sess = [NewSession(ScenarioWindow, SS_THRESHOLD) EXCEPT
                 !.history_depth = history_depth(ScenarioWindow, 1)]
    /\ file = NoFile
    /\ fin = NoFin

\* session.process_card_report(card.report(), elapsed_time) for the next
\* sample of the scenario.
ScenarioTick ==
    /\ loc.cycles < ScenarioTicks
    /\ LET k == loc.cycles
           elapsed_time == cfg.start_time + k * ScenarioPeriod
           rep == report(ScenarioCard, duty[ScenarioCard],
                         [ch \in Channels |-> ScenarioTemp(k)], lastop[ScenarioCard])
           r == process_card_report(rep, elapsed_time,
                    [temp_history |-> sess.temp_history,
                     steady_registry |-> sess.steady_registry],
                    sess.history_depth, sess.ss_window_duration_s, sess.ss_threshold)
       IN  /\ sess' = [sess EXCEPT !.temp_history = r.temp_history,
                                   !.steady_registry = r.steady_registry]
           /\ loc' = [loc EXCEPT !.elapsed_time = elapsed_time,
                                 !.crate_measurements = r.measurements,
                                 !.cycles = k + 1]
    /\ clock' = clock + ScenarioPeriod
    /\ UNCHANGED <<duty, lastop, rc, pc, cfg, file, fin>>

NextScenario == ScenarioTick

SpecScenario == InitScenario /\ [][NextScenario]_vars

\* The rows in hand are those of sample k, taken ScenarioPeriod * k after
\* the first one.
LastSample == loc.cycles - 1
FlatSince == 14 * ScenarioPeriod
SampleTime(k) == k * ScenarioPeriod

----
(***************************************************************************)
(* The detector on its own: process_card_report called with reports of one *)
(* card at sample times of any spacing (late, early, repeated or going     *)
(* back), and with a report that has no channels.                          *)
(***************************************************************************)
DetectorTicks == 4                       \* calls of process_card_report
DetectorSteps ==
    {0 - TIME_SCALE, 0, TIME_SCALE - 1, TIME_SCALE + 1, 2 * TIME_SCALE}
DetectorThresholds == {15}               \* ss_threshlod of the session, K/min
DetectorCard == "DT00"
EmptyCard == "DT01"

\* A report dict whose "channels" list is empty.
EmptyReport(serial) == [card_serial |-> serial, prior |-> "none", channels |-> <<>>]

DetectorReports ==
    {report(DetectorCard, duty[DetectorCard], temps, lastop[DetectorCard]) :
        temps \in MonitorReadings}
    \cup {EmptyReport(EmptyCard)}

InitDetector ==
    /\ duty = [c \in Serials |-> [ch \in LoadIdx |-> 0]]
    /\ lastop = [c \in Serials |-> "none"]
    /\ rc = NoCall
    /\ pc = "idle"
    /\ cfg = NoArgs
    /\ clock = 0
    /\ loc = NoLocals
    /\ sess \in {[NewSession(WindowUnits, th) EXCEPT
                    !.history_depth = history_depth(WindowUnits, n)] :
                 th \in DetectorThresholds, n \in 1 .. Len(SerialOrder)}
    /\ file = NoFile
    /\ fin = NoFin

\* session.process_card_report(rep, elapsed_time), dt after the last call.
ProcessCardReport(rep, dt) ==
    /\ loc.cycles < DetectorTicks
    /\ LET elapsed_time == IF loc.cycles = 0 THEN 0 ELSE loc.elapsed_time + dt
           r == process_card_report(rep, elapsed_time,
                    [temp_history |-> sess.temp_history,
                     steady_registry |-> sess.steady_registry],
                    sess.history_depth, sess.ss_window_duration_s, sess.ss_threshold)
       IN  /\ sess' = [sess EXCEPT !.temp_history = r.temp_history,
                                   !.steady_registry = r.steady_registry]
           /\ loc' = [loc EXCEPT
                        !.elapsed_time = elapsed_time,
                        !.crate_measurements = r.measurements,
                        !.state_info = [c \in DOMAIN @ \cup {rep.card_serial} |->
                                           IF c = rep.card_serial THEN r.is_steady ELSE @[c]],
                        !.cycles = @ + 1]
           /\ rc' = [NoCall EXCEPT !.status = "processed", !.read = <<rep>>,
                        !.before = sess.temp_history[rep.card_serial][0],
                        !.idx = r.window_start_idx]
    /\ UNCHANGED <<duty, lastop, pc, cfg, clock, file, fin>>

NextDetector == \E rep \in DetectorReports, dt \in DetectorSteps : ProcessCardReport(rep, dt)

SpecDetector == InitDetector /\ [][NextDetector]_vars

\* The history buffer of the channel of a row, after the call, and the
\* time it spans.
HistoryOf(row) == sess.temp_history[row.card_serial][row.channel]
Span(h) == h[Len(h)][1] - h[1][1]

\* The oldest sample of h inside the window that ends at its newest sample.
TrailingFirst(h, window) ==
    h[Min({i \in DOMAIN h : h[i][1] >= h[Len(h)][1] - window})]

\* C11: in every row with a rate, the rate is (T_last - T_first) * 60 /
\* (t_last - t_first) from the oldest sample inside the trailing window to
\* the sample of the tick, and steady_state is true iff abs(rate) is at
\* most the threshold.
C11_RateOverTrailingWindow ==
    \A i \in DOMAIN loc.crate_measurements :
        LET row == loc.crate_measurements[i]
            h == HistoryOf(row)
            first == TrailingFirst(h, sess.ss_window_duration_s)
            last == h[Len(h)]
            rate == row.temp_rate_per_min
        IN  rate # NoRate =>
              /\ rate[1] * ((last[1] - first[1]) * TEMP_SCALE) =
                    ((last[2] - first[2]) * SECONDS_PER_MINUTE * TIME_SCALE) * rate[2]
              /\ row.steady_state <=> (Abs(rate[1]) <= sess.ss_threshold * rate[2])

\* C12: a row carries a rate only if the history buffer of its channel at
\* that tick spans at least the window duration; a row without a rate is
\* not steady.
C12_RateOnlyWhenBufferSpansWindow ==
    \A i \in DOMAIN loc.crate_measurements :
        LET row == loc.crate_measurements[i]
        IN  /\ row.temp_rate_per_min # NoRate =>
                  Span(HistoryOf(row)) >= sess.ss_window_duration_s
            /\ row.temp_rate_per_min = NoRate => ~row.steady_state

\* C13: the verdict process_card_report returns for a card is the AND of
\* the steady_state values of the rows of that card made by the same call.
C13_CardVerdictIsAndOfChannels ==
    \A c \in DOMAIN loc.state_info :
        RowsOf(loc.crate_measurements, c) # {} =>
            (loc.state_info[c] <=> CardSteadyIn(loc.crate_measurements, c))

C13_Witness ==
    /\ DetectorCard \in DOMAIN loc.state_info
    /\ ~loc.state_info[DetectorCard]
    /\ \E i, j \in RowsOf(loc.crate_measurements, DetectorCard) :
          /\ loc.crate_measurements[i].steady_state
          /\ ~loc.crate_measurements[j].steady_state
          /\ loc.crate_measurements[j].temp_rate_per_min # NoRate

\* C14: a card whose report has no channels gets the verdict not steady
\* from process_card_report.
C14_NoChannelsNotSteady ==
    (rc.status = "processed" /\ DOMAIN rc.read[1].channels = {}) =>
        ~loc.state_info[rc.read[1].card_serial]

\* C27: the entry of channel 0's history at the window-start index is the
\* same before the sample of the tick is appended, when the index is
\* computed, and after it, when the rate is computed from it (for a tick
\* later than the samples of the buffer).
C27_IndexSameEntryAfterAppend ==
    (/\ rc.status = "processed"
     /\ rc.idx # NoIdx
     /\ DOMAIN rc.read[1].channels # {}
     /\ loc.elapsed_time > rc.before[Len(rc.before)][1]) =>
        LET h == sess.temp_history[rc.read[1].card_serial][0]
        IN  h[rc.idx + 1] = rc.before[rc.idx + 1]

\* Reports and shutdowns on a crate whose channels were left on or off by
\* the channel setters.
InitCard ==
    /\ duty \in [Serials -> [LoadIdx -> {0, PWM_FULL}]]
    /\ lastop = [c \in Serials |-> "none"]
    /\ rc = NoCall
    /\ InitSession

NextCard ==
    \/ \E c \in Serials, p \in PowerInputs : CardSetAllLoadPower(c, p)
    \/ \E c \in Serials : CardShutdownAllLoads(c)
    \/ CrateShutdownAllLoads
    \/ \E flag \in BOOLEAN, serials \in SerialLists \cup {None} :
         \E temps \in [SeqToSet(SerialsOf(serials)) -> CardReadings] :
            ReportCardsReturns(flag, serials, temps)
    \/ \E flag \in BOOLEAN, serials \in SerialLists \cup {None} :
         \E k \in 1 .. Len(SerialsOf(serials)) :
            \E temps \in [SeqToSet(SubSeq(SerialsOf(serials), 1, k - 1)) -> CardReadings] :
               ReportCardsRaises(flag, serials, temps, k)

SpecCard == InitCard /\ [][NextCard]_vars

----
\* C1: when report_cards returns, the cards it has shut down are exactly the
\* cards whose report shows an OT event if shutdown_card_on_ot is set, and
\* none if it is not set.
C1_ShutdownExactlyOtCards ==
    rc.status = "returned" =>
        SeqToSet(rc.shut) =
            IF rc.flag
            THEN {rc.read[i].card_serial : i \in {j \in DOMAIN rc.read : CardOtEv(rc.read[j])}}
            ELSE {}

C1_Witness ==
    /\ rc.status = "returned"
    /\ rc.flag
    /\ Len(rc.read) = 2
    /\ CardOtEv(rc.read[1])
    /\ ~CardOtEv(rc.read[2])
    /\ rc.shut = <<rc.read[1].card_serial>>

\* C2: a report taken of a card whose last power operation was
\* shutdown_all_loads shows load_power 0 on every channel, the auxiliary
\* channel and the sensor-only channels included.
C2_ReportAfterShutdownAllZero ==
    \A i \in DOMAIN rc.read :
        rc.read[i].prior = "shutdown" =>
            \A ch \in Channels : rc.read[i].channels[ch].load_power = 0

----
(***************************************************************************)
(* Setting load power: the channel setter, the card and the crate methods  *)
(***************************************************************************)
InitPower ==
    /\ duty = [c \in Serials |-> [ch \in LoadIdx |-> 0]]
    /\ lastop = [c \in Serials |-> "none"]
    /\ rc = NoCall
    /\ InitSession

NextPower ==
    \/ \E c \in Serials, ch \in Channels, p \in SetterInputs : ChannelSetLoadPower(c, ch, p)
    \/ \E c \in Serials, p \in SetterInputs : CardSetAllLoadPower(c, p)
    \/ \E c \in Serials : CardShutdownAllLoads(c)
    \/ CrateShutdownAllLoads
    \/ \E serials \in PowerLists, p \in CardPowerInputs : CrateSetCardsLoadPower(serials, p)
    \/ \E serials \in UnknownLists, powers \in PowerValueLists :
          CrateSetCardsLoadPowerRaises(serials, powers)

SpecPower == InitPower /\ [][NextPower]_vars

\* The total of the load-channel powers of a card (numerator over PWM_FULL).
RECURSIVE SumLoadPower(_, _)
SumLoadPower(d, chs) ==
    IF chs = {} THEN 0
    ELSE LET ch == CHOOSE x \in chs : TRUE
         IN  load_power(d, ch) + SumLoadPower(d, chs \ {ch})

\* C15: the stored load power of a load channel never exceeds max_power;
\* after the setter was called with more than max_power the stored power is
\* max_power, and calling it with max_power on a channel that stores
\* max_power leaves the stored power as it was.
C15_StoredPowerClamped ==
    /\ \A c \in Serials : \A ch \in LoadIdx :
          load_power(duty[c], ch) <= max_power(ch) * PWM_FULL
    /\ (rc.status = "set" /\ rc.channel \in LoadIdx) =>
          LET stored == load_power(duty[rc.serials[1]], rc.channel)
              max == max_power(rc.channel)
          IN  /\ rc.power > max => stored = max * PWM_FULL
              /\ (rc.power = max /\ rc.before = max * PWM_FULL) => stored = rc.before

C15_Witness ==
    /\ rc.status = "set"
    /\ rc.channel \in LoadIdx
    /\ rc.power > max_power(rc.channel)
    /\ rc.before < max_power(rc.channel) * PWM_FULL
    /\ load_power(duty[rc.serials[1]], rc.channel) = max_power(rc.channel) * PWM_FULL

\* C16: after set_cards_load_power(serials, p) the load-channel powers of
\* every named card add up to min(p, max_load_power).
C16_CardTotalIsRequestOrMax ==
    rc.status = "set_cards" =>
        \A c \in SeqToSet(rc.serials) :
            SumLoadPower(duty[c], LoadIdx) =
                (IF rc.power > max_load_power THEN max_load_power ELSE rc.power) * PWM_FULL

\* C30: when set_cards_load_power raises, every channel of every card has
\* the load power it had before the call.
C30_SetCardsAllOrNothing ==
    rc.status = "set_cards_raised" => duty = rc.before

\* C7: when report_cards raises with shutdown_card_on_ot set, every card
\* whose report was read with an OT event has been shut down.
C7_OtNotHiddenByFailure ==
    (rc.status = "raised" /\ rc.flag) =>
        \A i \in DOMAIN rc.read :
            CardOtEv(rc.read[i]) => rc.read[i].card_serial \in SeqToSet(rc.shut)

----
(***************************************************************************)
(* Several monitor() calls on one MonitoringSession object                 *)
(***************************************************************************)
CallsHorizon == 20                       \* no further call once the clock reads this
CallsDuration == 15                      \* duration of each call, in clock units
CallsArgs ==
    [duration : {CallsDuration}, interval : Intervals, shutdown_card_on_ot : {FALSE},
     stop_on_ot : {FALSE}, stop_on_steady_state : {FALSE},
     shutdown_at_end : {FALSE}, save_every_iteration : BOOLEAN,
     serials_to_monitor : SerialLists, start_time : {0}]

\* monitor() has returned or raised and the caller holds the session
\* object again: self.measurements, _file_initialized and the file stay.
BackToCaller ==
    /\ pc \in {"returned", "raised"}
    /\ clock < CallsHorizon
    /\ pc' = "idle"
    /\ UNCHANGED <<duty, lastop, rc, cfg, clock, loc, sess, file, fin>>

InitCalls == InitMon

NextCalls ==
    \/ \E args \in CallsArgs, late \in {0, 1} : MonitorStart(args, late)
    \/ LoopExit
    \/ Sleep
    \/ \E temps \in CycleTemps, d \in IoTimes(Len(CycleList)) : CycleCompletes(temps, d)
    \/ FinalizeCompletes
    \/ BackToCaller

SpecCalls == InitCalls /\ [][NextCalls]_vars

----
(***************************************************************************)
(* diot_lab.py: DIOTLab.monitor                                            *)
(***************************************************************************)
DEFAULT_MAX_TEMP == 75 * TEMP_SCALE      \* max_temp default, 75.0 Celsius

\* Temperatures the load channels of a card may show to the display loop.
LabReadings ==
    {[ch \in LoadIdx |-> CoolTemp],
     [ch \in LoadIdx |-> IF ch = 0 THEN WarmTemp ELSE CoolTemp],
     [ch \in LoadIdx |-> IF ch = 0 THEN HotTemp ELSE CoolTemp],
     [ch \in LoadIdx |-> IF ch = AuxIdx THEN HotTemp ELSE CoolTemp]}

LabArgs == [display_output : BOOLEAN, max_temp : {DEFAULT_MAX_TEMP}]

\* lab.monitor(max_temp=..., display_output=...) up to the loop
LabMonitorStart(args) ==
    /\ pc = "idle"
    /\ cfg' = args
    /\ pc' = "lab"
    /\ rc' = NoCall
    /\ UNCHANGED <<duty, lastop, clock, loc, sess, file, fin>>

\* The display loop over card.load_channels: a channel above max_temp is
\* set to 0 W.
LabDisplay(d, temps, max_temp) ==
    [ch \in LoadIdx |-> IF temps[ch] > max_temp THEN DutyFor(ch, 0) ELSE d[ch]]

\* One iteration of the while loop reading temps; it is the last one when
\* the duration is over or Ctrl+C is pressed in the sleep.
LabIteration(temps, last) ==
    /\ pc = "lab"
    /\ duty' = IF cfg.display_output
               THEN [c \in Serials |-> LabDisplay(duty[c], temps[c], cfg.max_temp)]
               ELSE duty
    /\ lastop' = IF cfg.display_output
                 THEN [c \in Serials |->
                          IF \E ch \in LoadIdx : temps[c][ch] > cfg.max_temp
                          THEN "set" ELSE lastop[c]]
                 ELSE lastop
    /\ rc' = [NoCall EXCEPT !.status = "lab", !.flag = cfg.display_output,
                            !.read = temps, !.before = duty]
    /\ pc' = IF last THEN "idle" ELSE "lab"
    /\ UNCHANGED <<cfg, clock, loc, sess, file, fin>>

InitLab == InitMon

NextLab ==
    \/ \E args \in LabArgs : LabMonitorStart(args)
    \/ \E temps \in [Serials -> LabReadings], last \in BOOLEAN : LabIteration(temps, last)

SpecLab == InitLab /\ [][NextLab]_vars

\* C23: after a monitoring iteration every load channel read above
\* max_temp is at power 0, with display_output set or not.
C23_HotChannelOffEveryMode ==
    rc.status = "lab" =>
        \A c \in Serials : \A ch \in LoadIdx :
            rc.read[c][ch] > cfg.max_temp => load_power(duty[c], ch) = 0

----
(***************************************************************************)
(* modify_ss_registry called with verdicts of any kind                     *)
(***************************************************************************)
RegistryCalls == 5                       \* calls of modify_ss_registry

\* session.modify_ss_registry(card_id, is_steady, elapsed_time), one second
\* after the last call.  loc.crate_measurements keeps the verdicts given.
ModifySsRegistry(card_id, is_steady) ==
    /\ loc.cycles < RegistryCalls
    /\ LET elapsed_time == loc.elapsed_time + TIME_SCALE
           m == modify_ss_registry(sess.steady_registry, card_id, is_steady, elapsed_time)
       IN  /\ sess' = [sess EXCEPT !.steady_registry = m.registry]
           /\ loc' = [loc EXCEPT
                        !.elapsed_time = elapsed_time,
                        !.crate_measurements =
                            Append(@, [card_serial |-> card_id, steady_state |-> is_steady]),
                        !.cycles = @ + 1]
           /\ rc' = [NoCall EXCEPT !.status = "registry", !.serials = <<card_id>>,
                        !.flag = is_steady, !.before = sess.steady_registry,
                        !.ret = m.added]
    /\ UNCHANGED <<duty, lastop, pc, cfg, clock, file, fin>>

InitRegistry == InitMon

NextRegistry == \E c \in Serials, b \in BOOLEAN : ModifySsRegistry(c, b)

SpecRegistry == InitRegistry /\ [][NextRegistry]_vars

----
(***************************************************************************)
(* set_history_buffer for any window and card count                        *)
(***************************************************************************)
MaxWindow == 8                           \* longest window tried, in seconds
MaxCards == 5                            \* largest n_cards tried
BufferWindows == {k * TIME_SCALE : k \in 1 .. MaxWindow}

InitBuffer ==
    /\ duty = [c \in Serials |-> [ch \in LoadIdx |-> 0]]
    /\ lastop = [c \in Serials |-> "none"]
    /\ rc = NoCall
    /\ pc = "idle"
    /\ cfg = NoArgs
    /\ clock = 0
    /\ loc = NoLocals
    /\ sess \in {NewSession(w, SS_THRESHOLD) : w \in BufferWindows}
    /\ file = NoFile
    /\ fin = NoFin

\* session.set_history_buffer(n_cards)
SetHistoryBuffer(n_cards) ==
    /\ sess' = set_history_buffer(sess, n_cards)
    /\ rc' = [NoCall EXCEPT !.status = "buffer", !.power = n_cards,
                            !.before = sess.history_depth]
    /\ UNCHANGED <<duty, lastop, pc, cfg, clock, loc, file, fin>>

NextBuffer == \E n \in 1 .. MaxCards : SetHistoryBuffer(n)

SpecBuffer == InitBuffer /\ [][NextBuffer]_vars

\* The least integer not below a / b, for b > 0.
CeilDiv(a, b) == (a + b - 1) \div b

\* C26: the depth the first set_history_buffer(n_cards) gives the buffers
\* is ceil(window / (n_cards * SECONDS_PER_BOARD)) + 1.
C26_DepthIsCeilOfWindowOverInterval ==
    (rc.status = "buffer" /\ rc.before = 0) =>
        sess.history_depth =
            CeilDiv(sess.ss_window_duration_s, rc.power * SECONDS_PER_BOARD * TIME_SCALE) + 1

----
(***************************************************************************)
(* monitor() with stop_on_steady_state on a crate at constant temperature  *)
(***************************************************************************)
SteadyDuration == 60                     \* duration of the run, in clock units
SteadyWindows == {TIME_SCALE, 2 * TIME_SCALE, 3 * TIME_SCALE}
SteadyIntervals == {TIME_SCALE \div 2, 2 * TIME_SCALE}
SteadyArgs ==
    [duration : {SteadyDuration}, interval : SteadyIntervals, shutdown_card_on_ot : {FALSE},
     stop_on_ot : {FALSE}, stop_on_steady_state : {TRUE},
     shutdown_at_end : {FALSE}, save_every_iteration : {TRUE},
     serials_to_monitor : MonitorLists, start_time : {0}]

\* Every channel of every monitored card reads the same temperature in
\* every cycle.
ConstantTemps == [c \in SeqToSet(CycleList) |-> [ch \in Channels |-> CoolTemp]]

InitSteady ==
    /\ duty = [c \in Serials |-> [ch \in LoadIdx |-> PWM_FULL]]
    /\ lastop = [c \in Serials |-> "set"]
    /\ rc = NoCall
    /\ pc = "idle"
    /\ cfg = NoArgs
    /\ clock = 0
    /\ loc = NoLocals
    /\ sess \in {NewSession(w, SS_THRESHOLD) : w \in SteadyWindows}
    /\ file = NoFile
    /\ fin = NoFin

NextSteady ==
    \/ \E args \in SteadyArgs, late \in {0, 1} : MonitorStart(args, late)
    \/ LoopExit
    \/ Sleep
    \/ \E d \in IoTimes(Len(CycleList)) : CycleCompletes(ConstantTemps, d)
    \/ FinalizeCompletes

SpecSteady == InitSteady /\ [][NextSteady]_vars

====
